---- MODULE Spec2Model ----
(***************************************************************************)
(* Model of example/yolo-v3/main.go: the command-line driver of the        *)
(* tiny-YOLOv3 example (func main) and its annotation-folder parser        *)
(* (func parseFolder).                                                     *)
(*                                                                         *)
(* Strings are sequences of one-character strings, so that the string      *)
(* functions the code calls (filepath.Ext, strings.Split, ReplaceAll,      *)
(* TrimSpace, ToLower, strconv.ParseFloat) are computed character by       *)
(* character.  A float32 is represented by the decimal it was parsed       *)
(* from, <<digits, scale>> = digits / 10^scale with trailing zeros         *)
(* removed; two decimals of at most six significant digits are the same    *)
(* float32 exactly when they have the same such form.                      *)
(***************************************************************************)
EXTENDS Integers, Sequences, FiniteSets, TLC

\* ------------------------------------------------------------------ bounds
\* Longest annotation file (in characters) enumerated exhaustively.
MaxLen == 4
\* Most entries of an enumerated directory.
MaxEntries == 2
\* Annotation files of the large training folder (beyond the 150 breakpoint).
MaxFiles == 152
\* Keys over which the order of the map range is left completely free.
MaxShuffle == 3
\* Most optimizer-step failures injected into one run.
MaxStepErrs == 2

\* --------------------------------------------------------------- characters
Digits == {"0", "1", "2", "3", "4", "5", "6", "7", "8", "9"}

DigitVal(c) ==
    CASE c = "0" -> 0 [] c = "1" -> 1 [] c = "2" -> 2 [] c = "3" -> 3
      [] c = "4" -> 4 [] c = "5" -> 5 [] c = "6" -> 6 [] c = "7" -> 7
      [] c = "8" -> 8 [] c = "9" -> 9

\* unicode.IsSpace on the characters the model uses.
IsSpace(c) == c \in {" ", "\n", "\t", "\r"}

\* Byte order of the characters that occur in file names (ReadDir sorts by name).
CharCode(c) ==
    CASE c = "." -> 46
      [] c \in Digits -> 48 + DigitVal(c)
      [] c = "T" -> 84 [] c = "X" -> 88
      [] c = "a" -> 97 [] c = "b" -> 98 [] c = "e" -> 101 [] c = "f" -> 102
      [] c = "g" -> 103 [] c = "j" -> 106 [] c = "k" -> 107 [] c = "l" -> 108
      [] c = "m" -> 109 [] c = "p" -> 112 [] c = "s" -> 115 [] c = "t" -> 116
      [] c = "u" -> 117 [] c = "x" -> 120

\* ---------------------------------------------------------- string functions
\* strings.ReplaceAll(s, old, new) for one-character old and new.
ReplaceAll(s, old, new) == [i \in DOMAIN s |-> IF s[i] = old THEN new ELSE s[i]]

\* strings.Split(s, sep) for a one-character separator: the pieces between
\* separators, empty pieces included; a string without sep is its only piece.
RECURSIVE Split(_, _)
Split(s, sep) ==
    IF \A i \in DOMAIN s : s[i] # sep
    THEN <<s>>
    ELSE LET k == CHOOSE i \in DOMAIN s :
                     s[i] = sep /\ \A j \in 1..(i - 1) : s[j] # sep
         IN  <<SubSeq(s, 1, k - 1)>> \o Split(SubSeq(s, k + 1, Len(s)), sep)

\* strings.TrimSpace(s): leading and trailing white space removed.
TrimSpace(s) ==
    IF \A i \in DOMAIN s : IsSpace(s[i])
    THEN <<>>
    ELSE LET a == CHOOSE i \in DOMAIN s :
                     ~IsSpace(s[i]) /\ \A j \in 1..(i - 1) : IsSpace(s[j])
             b == CHOOSE i \in DOMAIN s :
                     ~IsSpace(s[i]) /\ \A j \in (i + 1)..Len(s) : IsSpace(s[j])
         IN  SubSeq(s, a, b)

\* filepath.Ext(name): the suffix beginning at the final dot; empty without a dot.
Ext(name) ==
    IF \A i \in DOMAIN name : name[i] # "."
    THEN <<>>
    ELSE LET k == CHOOSE i \in DOMAIN name :
                     name[i] = "." /\ \A j \in (i + 1)..Len(name) : name[j] # "."
         IN  SubSeq(name, k, Len(name))

RECURSIVE DigitsValue(_)
DigitsValue(s) ==
    IF s = <<>> THEN 0 ELSE 10 * DigitsValue(SubSeq(s, 1, Len(s) - 1)) + DigitVal(s[Len(s)])

RECURSIVE Normalize(_)
Normalize(v) ==
    IF v[2] > 0 /\ v[1] % 10 = 0 THEN Normalize(<<v[1] \div 10, v[2] - 1>>) ELSE v

\* strconv.ParseFloat(s, 32) succeeds: on strings of digits, dots and other
\* characters that are neither signs, exponents nor letters of inf/nan, the
\* accepted strings are digits with at most one dot and at least one digit.
ParseFloatOk(s) ==
    /\ \A i \in DOMAIN s : s[i] \in Digits \cup {"."}
    /\ \E i \in DOMAIN s : s[i] \in Digits
    /\ Cardinality({i \in DOMAIN s : s[i] = "."}) <= 1

\* float32(strconv.ParseFloat(s, 32)) of an accepted string.
ParseFloat(s) ==
    LET pieces == Split(s, ".")
        int    == pieces[1]
        frac   == IF Len(pieces) > 1 THEN pieces[2] ELSE <<>>
    IN  Normalize(<<DigitsValue(int \o frac), Len(frac)>>)

\* strings.ToLower on the letters that occur in mode strings.
LowerChar(c) ==
    CASE c = "D" -> "d" [] c = "E" -> "e" [] c = "T" -> "t" [] c = "C" -> "c"
      [] c = "O" -> "o" [] c = "R" -> "r" [] c = "A" -> "a" [] c = "I" -> "i"
      [] c = "N" -> "n" [] c = "G" -> "g"
      [] OTHER -> c

ToLower(s) == [i \in DOMAIN s |-> LowerChar(s[i])]

\* s < t in byte order, the order in which ioutil.ReadDir returns the names.
RECURSIVE NameLess(_, _)
NameLess(s, t) ==
    IF t = <<>> THEN FALSE
    ELSE IF s = <<>> THEN TRUE
    ELSE IF CharCode(Head(s)) # CharCode(Head(t)) THEN CharCode(Head(s)) < CharCode(Head(t))
    ELSE NameLess(Tail(s), Tail(t))

\* ------------------------------------------------------------- parseFolder
\* A directory is [readable, files]: files is what ioutil.ReadDir returns, the
\* entries sorted by name, each [name, isDir, readable, bytes].

TxtExt == <<".", "t", "x", "t">>

\* map[k] = v on a map held as a function.
MapPut(m, k, v) == [x \in DOMAIN m \cup {k} |-> IF x = k THEN v ELSE m[x]]

\* Line 225: the file's text with newlines turned into spaces, split at spaces.
fileContentAsArray(fileBytes) == Split(ReplaceAll(fileBytes, "\n", " "), " ")

\* Faulty variant of parseEntities: a piece that is no float is skipped.
RECURSIVE parseEntitiesSkipBad(_, _)
parseEntitiesSkipBad(arr, sliceOfF32) ==
    IF arr = <<>>
    THEN [err |-> FALSE, slice |-> sliceOfF32]
    ELSE LET entity == TrimSpace(Head(arr))
         IN  IF entity = <<>> \/ ~ParseFloatOk(entity)
             THEN parseEntitiesSkipBad(Tail(arr), sliceOfF32)
             ELSE parseEntitiesSkipBad(Tail(arr), Append(sliceOfF32, ParseFloat(entity)))

\* Lines 226-236: the inner loop over the pieces; err when a piece is no float.
RECURSIVE parseEntities(_, _)
parseEntities(arr, sliceOfF32) ==
    IF arr = <<>>
    THEN [err |-> FALSE, slice |-> sliceOfF32]
    ELSE LET entity == TrimSpace(Head(arr))
         IN  IF entity = <<>>
             THEN parseEntities(Tail(arr), sliceOfF32)
             ELSE IF ~ParseFloatOk(entity)
                  THEN [err |-> TRUE, slice |-> <<>>]
                  ELSE parseEntities(Tail(arr), Append(sliceOfF32, ParseFloat(entity)))

\* Line 217: the entries the loop skips.
skipEntry(fileInfo) == fileInfo.isDir \/ Ext(fileInfo.name) # TxtExt

\* Line 237: the key of an annotation file.
targetKey(name) == Split(name, ".")[1]

\* return nil, err
parseError(err) == [nil |-> TRUE, targets |-> <<>>, err |-> err]

\* Faulty variant of parseReturn: the test for an empty map is missing.
parseReturnUnchecked(targets) == [nil |-> FALSE, targets |-> targets, err |-> "none"]

\* Lines 240-244: the return after the loop.
parseReturn(targets) ==
    IF Cardinality(DOMAIN targets) = 0
    THEN parseError("NoTxtFiles")
    ELSE [nil |-> FALSE, targets |-> targets, err |-> "none"]

\* Lines 214-237: the loop body on one entry: the failure it returns on, if
\* any, and the map after it.
parseEntry(fileInfo, targets) ==
    IF skipEntry(fileInfo)
    THEN [err |-> "none", targets |-> targets]
    ELSE IF ~fileInfo.readable
         THEN [err |-> "ReadFile", targets |-> targets]
         ELSE LET r == parseEntities(fileContentAsArray(fileInfo.bytes), <<>>)
              IN  IF r.err
                  THEN [err |-> "ParseFloat", targets |-> targets]
                  ELSE [err |-> "none",
                        targets |-> MapPut(targets, targetKey(fileInfo.name), r.slice)]

\* ------------------------------------------------------------------ inputs
DigitChar(d) == CHOOSE c \in Digits : DigitVal(c) = d

Jpg == <<".", "j", "p", "g">>

AnnotationFile(name, bytes) == [name |-> name, isDir |-> FALSE, readable |-> TRUE, bytes |-> bytes]
ImageFile(name) == [name |-> name, isDir |-> FALSE, readable |-> TRUE, bytes |-> <<>>]
Folder(files) == [readable |-> TRUE, files |-> files]
NoFolder == [readable |-> FALSE, files |-> <<>>]

\* Characters of the annotation files enumerated exhaustively.
Alphabet == {"0", "1", ".", " ", "\n", "\t", "\r", "x"}

Texts == UNION {[1..k -> Alphabet] : k \in 0..MaxLen}

\* Folders holding the single annotation file a.txt, with every text up to MaxLen.
FileDirs == {Folder(<<AnnotationFile(<<"a", ".", "t", "x", "t">>, b)>>) : b \in Texts}

NamePool ==
    { <<"a", ".", "t", "x", "t">>, <<"b", ".", "t", "x", "t">>,
      <<"a", ".", "b", ".", "t", "x", "t">>, <<"a", ".", "j", "p", "g">>,
      <<".", "t", "x", "t">>, <<"t", "x", "t">>,
      <<"a", ".", "t", "x", "t", ".", "b", "a", "k">>, <<"a", ".", "T", "X", "T">> }

ContentPool ==
    { <<>>, <<"1", " ", "0", ".", "5">>, <<"1", " ", "x">>, <<"1", "\t", "5">>, <<"2", "\n">> }

\* What an entry of a given name can be: a directory, an unreadable file, a file.
Variants ==
    { [isDir |-> TRUE, readable |-> TRUE, bytes |-> <<>>],
      [isDir |-> FALSE, readable |-> FALSE, bytes |-> <<>>] }
    \cup { [isDir |-> FALSE, readable |-> TRUE, bytes |-> b] : b \in ContentPool }

RECURSIVE SortedNames(_)
SortedNames(S) ==
    IF S = {} THEN <<>>
    ELSE LET m == CHOOSE x \in S : \A y \in S \ {x} : NameLess(x, y)
         IN  <<m>> \o SortedNames(S \ {m})

\* The listing ReadDir returns for the names S with the variant f[name] each.
Listing(S, f) ==
    LET names == SortedNames(S)
    IN  [i \in 1..Len(names) |->
            [name |-> names[i], isDir |-> f[names[i]].isDir,
             readable |-> f[names[i]].readable, bytes |-> f[names[i]].bytes]]

\* Every folder of at most MaxEntries entries named from NamePool.
GenDirs ==
    UNION { {Folder(Listing(S, f)) : f \in [S -> Variants]} :
            S \in {T \in SUBSET NamePool : Cardinality(T) <= MaxEntries} }

ParseDirs == FileDirs \cup GenDirs \cup {NoFolder}

\* The large training folder: f001.jpg, f001.txt, ..., one pair per annotation.
BigName(n, ext) ==
    <<"f", DigitChar(n \div 100), DigitChar((n \div 10) % 10), DigitChar(n % 10)>> \o ext

BigDir ==
    Folder([i \in 1..(2 * MaxFiles) |->
              IF i % 2 = 1 THEN ImageFile(BigName((i + 1) \div 2, Jpg))
              ELSE AnnotationFile(BigName(i \div 2, TxtExt), <<>>)])

Sample1 == <<"s", "a", "m", "p", "l", "e", "1">>
SampleText == <<"0", ".", "1", " ", "0", ".", "2", " ", "0", ".", "3", " ", "0", ".", "4">>

\* The folder holding sample1.jpg and sample1.txt.
SampleDir ==
    Folder(<<ImageFile(Sample1 \o Jpg), AnnotationFile(Sample1 \o TxtExt, SampleText)>>)

\* The training folders of the driver's runs.
TrainDirs ==
    { NoFolder,
      Folder(<<>>),
      Folder(<<ImageFile(<<"a">> \o Jpg)>>),
      SampleDir,
      Folder(<<ImageFile(<<"a">> \o Jpg), AnnotationFile(<<"a">> \o TxtExt, <<"1", " ", "x">>)>>),
      Folder(<<ImageFile(<<"a">> \o Jpg), AnnotationFile(<<"a">> \o TxtExt, <<"1", "\t", "5">>)>>),
      Folder(<<ImageFile(<<"a">> \o Jpg), AnnotationFile(<<"a">> \o TxtExt, <<"1">>),
               AnnotationFile(<<"b">> \o TxtExt, <<"2">>)>>),
      Folder(<<ImageFile(<<"a">> \o Jpg), AnnotationFile(<<"a">> \o TxtExt, <<"1">>),
               ImageFile(<<"b">> \o Jpg), AnnotationFile(<<"b">> \o TxtExt, <<"x">>)>>),
      Folder(<<AnnotationFile(<<"a", ".", "b">> \o TxtExt, <<"5">>),
               ImageFile(<<"a">> \o Jpg), AnnotationFile(<<"a">> \o TxtExt, <<"1">>),
               ImageFile(<<"b">> \o Jpg), AnnotationFile(<<"b">> \o TxtExt, <<>>),
               ImageFile(<<"e">> \o Jpg), AnnotationFile(<<"e">> \o TxtExt, <<"0", ".", "5", "\n">>)>>),
      BigDir }

Detector == <<"d", "e", "t", "e", "c", "t", "o", "r">>
Training == <<"t", "r", "a", "i", "n", "i", "n", "g">>

\* Values of the -mode flag.
ModePool ==
    { Detector, <<"D", "e", "t", "e", "c", "t", "o", "r">>,
      Training, <<"T", "R", "A", "I", "N", "I", "N", "G">>,
      <<"t", "r", "a", "i", "n">>, <<>> }

\* ------------------------------------------------------------------- state
VARIABLES
    modeStr,         \* the -mode flag
    trainingFolder,  \* the folder the -train flag names
    pc,              \* the statement main (or parseFolder) is at
    path,            \* the case of the switch entered: none, detector, training
    stages,          \* detector stages completed
    calls,           \* how often each call was made
    err,             \* the call whose error main holds, or nil
    tmState,         \* the tape machine: none, clean, dirty (run and not reset)
    tmClosed,        \* the deferred tm.Close() has run
    fileIdx,         \* parseFolder: the index i into filesInfo
    targets,         \* parseFolder: the map being filled
    labeledData,     \* what parseFolder returned: [nil, targets, err]
    remaining,       \* keys the range over labeledData has not produced yet
    key,             \* the loop variable i
    iter,            \* the iteration counter
    solverRate,      \* learning rate of the current solver, in units of 1e-7
    stepsOf,         \* optimizer steps made while the loop was at each key
    lastStep,        \* iteration index and rate of the latest optimizer step
    fatal,           \* the failure main returned on, or none
    errMsgs,         \* error messages printed before a return
    stepErrMsgs,     \* error messages printed after which main went on
    printed          \* the detections were printed

vars == <<modeStr, trainingFolder, pc, path, stages, calls, err, tmState, tmClosed,
          fileIdx, targets, labeledData, remaining, key, iter, solverRate, stepsOf,
          lastStep, fatal, errMsgs, stepErrMsgs, printed>>

flagVars == <<modeStr, trainingFolder>>
parseVars == <<fileIdx, targets>>
loopVars == <<remaining, key, iter, solverRate, stepsOf, lastStep>>
exitVars == <<fatal, errMsgs, tmClosed>>

CallNames ==
    { "NewYoloV3", "GetFloat32Image", "Let", "NewTapeMachine", "RunAll", "Reset",
      "ProcessOutput", "parseFolder", "ActivateTrainingMode", "Concat", "Sum",
      "Grad", "Compile", "SetTarget", "Step" }

Called(c) == [calls EXCEPT ![c] = @ + 1]

\* Learning rates in units of 1e-7, and the iteration counts that switch them.
Rate0 == 100
Rate15 == 10
Rate150 == 1
Break15 == 15
Break150 == 150

NoData == [nil |-> TRUE, targets |-> <<>>, err |-> "none"]

InitRest ==
    /\ path = "none"
    /\ stages = {}
    /\ calls = [c \in CallNames |-> 0]
    /\ err = "nil"
    /\ tmState = "none"
    /\ tmClosed = FALSE
    /\ fileIdx = 0
    /\ targets = <<>>
    /\ labeledData = NoData
    /\ remaining = {}
    /\ key = <<>>
    /\ iter = 0
    /\ solverRate = 0
    /\ stepsOf = <<>>
    /\ lastStep = <<>>
    /\ fatal = "none"
    /\ errMsgs = 0
    /\ stepErrMsgs = 0
    /\ printed = FALSE

\* A run of the driver: any mode with one of the training folders, or training
\* mode with one of the enumerated folders.
Init ==
    /\ \/ modeStr \in ModePool /\ trainingFolder \in TrainDirs
       \/ modeStr = Training /\ trainingFolder \in ParseDirs
    /\ pc = "NewYoloV3"
    /\ InitRest

\* Faulty variant of deferredClose: the tape machine is never closed.
deferredCloseMissing == FALSE

\* Lines 74, 145: defer tm.Close() runs when main returns with tm created.
deferredClose == tmState # "none"

\* A failure branch: the message is printed and main returns.
Return(tag) ==
    /\ pc' = "done"
    /\ fatal' = tag
    /\ errMsgs' = errMsgs + 1
    /\ tmClosed' = deferredClose

\* main falls off its end (lines 101, 198, 204).
Finish ==
    /\ pc' = "done"
    /\ tmClosed' = deferredClose
    /\ UNCHANGED <<fatal, errMsgs>>

\* main goes on to the next statement.
Continue(next) ==
    /\ pc' = next
    /\ UNCHANGED exitVars

\* Faulty variant of returnsOnError: a failed optimizer step ends the run too.
returnsOnErrorAll == CallNames

\* Faulty variant of returnsOnError: a failed SetTarget is only reported.
returnsOnErrorButSetTarget == CallNames \ {"Step", "SetTarget"}

\* The calls whose error is answered with a message and a return; the error of
\* solver.Step() (lines 190-192) is answered with a message only.
returnsOnError == CallNames \ {"Step"}

\* The `if err != nil` that follows a call.
React(name, ok, next) ==
    /\ err' = IF ok THEN "nil" ELSE name
    /\ IF ok
       THEN Continue(next) /\ UNCHANGED stepErrMsgs
       ELSE IF name \in returnsOnError
            THEN Return(name) /\ UNCHANGED stepErrMsgs
            ELSE Continue(next) /\ stepErrMsgs' = stepErrMsgs + 1

\* A call and the `if err != nil` that follows it.
AfterCall(name, ok, next) ==
    /\ calls' = Called(name)
    /\ React(name, ok, next)

\* Faulty variant of tmReset: the reset leaves the tape machine as it was.
tmResetOmitted(st) == st

\* tm.RunAll() and tm.Reset() on the state of the tape machine.
tmRunAll(st) == "dirty"
tmReset(st) == "clean"

\* Lines 46-51.
NewYoloV3 ==
    /\ pc = "NewYoloV3"
    /\ \E ok \in BOOLEAN : AfterCall("NewYoloV3", ok, "switch")
    /\ UNCHANGED <<flagVars, path, stages, tmState, parseVars, labeledData, loopVars,
                   printed>>

\* Faulty variant of switchValue: the mode string is compared as given.
switchValueAsGiven == modeStr

\* Line 53: the value the switch compares.
switchValue == ToLower(modeStr)

\* Lines 53-54.
SwitchDetector ==
    /\ pc = "switch"
    /\ switchValue = Detector
    /\ path' = "detector"
    /\ Continue("d_GetFloat32Image")
    /\ UNCHANGED <<flagVars, stages, calls, err, tmState, parseVars, labeledData,
                   loopVars, stepErrMsgs, printed>>

\* Lines 53, 102.
SwitchTraining ==
    /\ pc = "switch"
    /\ switchValue = Training
    /\ path' = "training"
    /\ Continue("pf_ReadDir")
    /\ UNCHANGED <<flagVars, stages, calls, err, tmState, parseVars, labeledData,
                   loopVars, stepErrMsgs, printed>>

\* Lines 199-202.
SwitchDefault ==
    /\ pc = "switch"
    /\ switchValue \notin {Detector, Training}
    /\ Return("Mode")
    /\ UNCHANGED <<flagVars, path, stages, calls, err, tmState, parseVars, labeledData,
                   loopVars, stepErrMsgs, printed>>

\* ----------------------------------------------------------- detector path
\* Lines 56-60.
DetGetFloat32Image ==
    /\ pc = "d_GetFloat32Image"
    /\ \E ok \in BOOLEAN :
          /\ AfterCall("GetFloat32Image", ok, "d_Let")
          /\ stages' = IF ok THEN stages \cup {"ImageLoaded"} ELSE stages
    /\ UNCHANGED <<flagVars, path, tmState, parseVars, labeledData, loopVars, printed>>

\* Lines 63-70.
DetLet ==
    /\ pc = "d_Let"
    /\ \E ok \in BOOLEAN : AfterCall("Let", ok, "d_NewTapeMachine")
    /\ UNCHANGED <<flagVars, path, stages, tmState, parseVars, labeledData, loopVars,
                   printed>>

\* Lines 73-74.
DetNewTapeMachine ==
    /\ pc = "d_NewTapeMachine"
    /\ AfterCall("NewTapeMachine", TRUE, "d_RunAll")
    /\ tmState' = "clean"
    /\ UNCHANGED <<flagVars, path, stages, parseVars, labeledData, loopVars, printed>>

\* Lines 77-82.
DetRunAll ==
    /\ pc = "d_RunAll"
    /\ tmState' = tmRunAll(tmState)
    /\ \E ok \in BOOLEAN :
          /\ AfterCall("RunAll", ok, "d_Reset")
          /\ stages' = IF ok THEN stages \cup {"GraphEvaluated"} ELSE stages
    /\ UNCHANGED <<flagVars, path, parseVars, labeledData, loopVars, printed>>

\* Line 85.
DetReset ==
    /\ pc = "d_Reset"
    /\ AfterCall("Reset", TRUE, "d_ProcessOutput")
    /\ tmState' = tmReset(tmState)
    /\ UNCHANGED <<flagVars, path, stages, parseVars, labeledData, loopVars, printed>>

\* Lines 88-94.
DetProcessOutput ==
    /\ pc = "d_ProcessOutput"
    /\ \E ok \in BOOLEAN :
          /\ AfterCall("ProcessOutput", ok, "d_Print")
          /\ stages' = IF ok THEN stages \cup {"PostProcessed"} ELSE stages
    /\ UNCHANGED <<flagVars, path, tmState, parseVars, labeledData, loopVars, printed>>

\* Lines 96-101.
DetPrint ==
    /\ pc = "d_Print"
    /\ printed' = TRUE
    /\ stages' = stages \cup {"Printed"}
    /\ Finish
    /\ UNCHANGED <<flagVars, path, calls, err, tmState, parseVars, labeledData, loopVars,
                   stepErrMsgs>>

\* ------------------------------------------------------------ parseFolder
\* Lines 207-211.
ParseReadDir ==
    /\ pc = "pf_ReadDir"
    /\ calls' = Called("parseFolder")
    /\ IF ~trainingFolder.readable
       THEN /\ labeledData' = parseError("ReadDir")
            /\ pc' = "pf_returned"
            /\ UNCHANGED parseVars
       ELSE /\ targets' = <<>>
            /\ fileIdx' = 1
            /\ pc' = "pf_loop"
            /\ UNCHANGED labeledData
    /\ UNCHANGED <<flagVars, path, stages, err, tmState, exitVars, loopVars,
                   stepErrMsgs, printed>>

\* Lines 213-238: one turn of the loop over filesInfo.
ParseEntry ==
    /\ pc = "pf_loop"
    /\ fileIdx <= Len(trainingFolder.files)
    /\ LET r == parseEntry(trainingFolder.files[fileIdx], targets)
       IN  IF r.err # "none"
           THEN /\ labeledData' = parseError(r.err)
                /\ pc' = "pf_returned"
                /\ UNCHANGED parseVars
           ELSE /\ targets' = r.targets
                /\ fileIdx' = fileIdx + 1
                /\ UNCHANGED <<pc, labeledData>>
    /\ UNCHANGED <<flagVars, path, stages, calls, err, tmState, exitVars, loopVars,
                   stepErrMsgs, printed>>

\* Lines 240-244.
ParseEnd ==
    /\ pc = "pf_loop"
    /\ fileIdx > Len(trainingFolder.files)
    /\ labeledData' = parseReturn(targets)
    /\ pc' = "pf_returned"
    /\ UNCHANGED <<flagVars, path, stages, calls, err, tmState, exitVars, parseVars,
                   loopVars, stepErrMsgs, printed>>

\* ------------------------------------------------------------ trainer path
\* Lines 104-108: main takes what parseFolder returned.
TrainLabeledData ==
    /\ pc = "pf_returned"
    /\ React("parseFolder", labeledData.err = "none", "t_ActivateTrainingMode")
    /\ UNCHANGED <<flagVars, path, stages, calls, tmState, parseVars, labeledData,
                   loopVars, printed>>

\* A call of the set-up.
SetUpCall(at, name, next) ==
    /\ pc = at
    /\ \E ok \in BOOLEAN : AfterCall(name, ok, next)
    /\ UNCHANGED <<flagVars, path, stages, tmState, parseVars, labeledData, remaining, key,
                   iter, stepsOf, lastStep, printed>>

\* Lines 109-113.
TrainActivateTrainingMode ==
    /\ SetUpCall("t_ActivateTrainingMode", "ActivateTrainingMode", "t_Concat")
    /\ UNCHANGED solverRate

\* Lines 116-122: the solver starts at rate 0.00001.
TrainConcat ==
    /\ SetUpCall("t_Concat", "Concat", "t_Sum")
    /\ solverRate' = Rate0

\* Lines 125-129.
TrainSum ==
    /\ SetUpCall("t_Sum", "Sum", "t_Grad")
    /\ UNCHANGED solverRate

\* Lines 132-136.
TrainGrad ==
    /\ SetUpCall("t_Grad", "Grad", "t_Compile")
    /\ UNCHANGED solverRate

\* Lines 137-141.
TrainCompile ==
    /\ SetUpCall("t_Compile", "Compile", "t_NewTapeMachine")
    /\ UNCHANGED solverRate

\* Lines 144-147.
TrainNewTapeMachine ==
    /\ pc = "t_NewTapeMachine"
    /\ AfterCall("NewTapeMachine", TRUE, "t_range")
    /\ tmState' = "clean"
    /\ iter' = 0
    /\ remaining' = DOMAIN labeledData.targets
    /\ stepsOf' = [k \in DOMAIN labeledData.targets |-> 0]
    /\ UNCHANGED <<flagVars, path, stages, parseVars, labeledData, key, solverRate,
                   lastStep, printed>>

\* The keys a range over a map may produce next.  The language leaves the order
\* open; the model leaves it open among the last MaxShuffle keys and takes the
\* smallest key before that.
rangeChoices(rem) ==
    IF Cardinality(rem) <= MaxShuffle THEN rem
    ELSE {CHOOSE x \in rem : \A y \in rem \ {x} : NameLess(x, y)}

\* Line 148: the range produces the next key.
TrainRangeNext ==
    /\ pc = "t_range"
    /\ remaining # {}
    /\ \E k \in rangeChoices(remaining) :
          /\ key' = k
          /\ remaining' = remaining \ {k}
    /\ Continue("t_GetFloat32Image")
    /\ UNCHANGED <<flagVars, path, stages, calls, err, tmState, parseVars, labeledData,
                   iter, solverRate, stepsOf, lastStep, stepErrMsgs, printed>>

\* Lines 148, 197-198, 204: the range is exhausted and main ends.
TrainRangeEnd ==
    /\ pc = "t_range"
    /\ remaining = {}
    /\ Finish
    /\ UNCHANGED <<flagVars, path, stages, calls, err, tmState, parseVars, labeledData,
                   loopVars, stepErrMsgs, printed>>

\* Line 150: the image file of a key.
imagePath(k) == k \o Jpg

\* The folder holds a file of that name.
FileExists(d, name) == \E j \in DOMAIN d.files : d.files[j].name = name /\ ~d.files[j].isDir

\* Lines 150-155: the image cannot load when the folder has no such file.
TrainGetFloat32Image ==
    /\ pc = "t_GetFloat32Image"
    /\ \E ok \in BOOLEAN :
          AfterCall("GetFloat32Image", ok /\ FileExists(trainingFolder, imagePath(key)),
                    "t_SetTarget")
    /\ UNCHANGED <<flagVars, path, stages, tmState, parseVars, labeledData, loopVars,
                   printed>>

\* Lines 158-162.
TrainSetTarget ==
    /\ pc = "t_SetTarget"
    /\ \E ok \in BOOLEAN : AfterCall("SetTarget", ok, "t_Let")
    /\ UNCHANGED <<flagVars, path, stages, tmState, parseVars, labeledData, loopVars,
                   printed>>

\* Lines 165-172.
TrainLet ==
    /\ pc = "t_Let"
    /\ \E ok \in BOOLEAN : AfterCall("Let", ok, "t_RunAll")
    /\ UNCHANGED <<flagVars, path, stages, tmState, parseVars, labeledData, loopVars,
                   printed>>

\* Lines 175-179.
TrainRunAll ==
    /\ pc = "t_RunAll"
    /\ tmState' = tmRunAll(tmState)
    /\ \E ok \in BOOLEAN : AfterCall("RunAll", ok, "t_schedule")
    /\ UNCHANGED <<flagVars, path, stages, parseVars, labeledData, loopVars, printed>>

\* Faulty variant of scheduledRate: the tests come one iteration late.
scheduledRateLate(it, rate) ==
    LET r15 == IF it = Break15 + 1 THEN Rate15 ELSE rate
    IN  IF it = Break150 + 1 THEN Rate150 ELSE r15

\* Lines 181-186: the rate of the solver after the two tests on iter.
scheduledRate(it, rate) ==
    LET r15 == IF it = Break15 THEN Rate15 ELSE rate
    IN  IF it = Break150 THEN Rate150 ELSE r15

\* Lines 181-188.
TrainSchedule ==
    /\ pc = "t_schedule"
    /\ solverRate' = scheduledRate(iter, solverRate)
    /\ Continue("t_Step")
    /\ UNCHANGED <<flagVars, path, stages, calls, err, tmState, parseVars, labeledData,
                   remaining, key, iter, stepsOf, lastStep, stepErrMsgs, printed>>

\* Lines 189-192.  At most MaxStepErrs steps of a run fail.
TrainStep ==
    /\ pc = "t_Step"
    /\ stepsOf' = [stepsOf EXCEPT ![key] = @ + 1]
    /\ lastStep' = <<iter, solverRate>>
    /\ \E ok \in BOOLEAN :
          /\ ok \/ stepErrMsgs < MaxStepErrs
          /\ AfterCall("Step", ok, "t_Reset")
    /\ UNCHANGED <<flagVars, path, stages, tmState, parseVars, labeledData, remaining, key,
                   iter, solverRate, printed>>

\* Lines 195-196.
TrainReset ==
    /\ pc = "t_Reset"
    /\ AfterCall("Reset", TRUE, "t_range")
    /\ tmState' = tmReset(tmState)
    /\ iter' = iter + 1
    /\ UNCHANGED <<flagVars, path, stages, parseVars, labeledData, remaining, key,
                   solverRate, stepsOf, lastStep, printed>>

Next ==
    \/ NewYoloV3
    \/ SwitchDetector
    \/ SwitchTraining
    \/ SwitchDefault
    \/ DetGetFloat32Image
    \/ DetLet
    \/ DetNewTapeMachine
    \/ DetRunAll
    \/ DetReset
    \/ DetProcessOutput
    \/ DetPrint
    \/ ParseReadDir
    \/ ParseEntry
    \/ ParseEnd
    \/ TrainLabeledData
    \/ TrainActivateTrainingMode
    \/ TrainConcat
    \/ TrainSum
    \/ TrainGrad
    \/ TrainCompile
    \/ TrainNewTapeMachine
    \/ TrainRangeNext
    \/ TrainRangeEnd
    \/ TrainGetFloat32Image
    \/ TrainSetTarget
    \/ TrainLet
    \/ TrainRunAll
    \/ TrainSchedule
    \/ TrainStep
    \/ TrainReset

Spec == Init /\ [][Next]_vars

\* ============================================================== properties
\* --------------------------------------------- the terms the claims are in
\* The name ends in ".txt".
EndsWithTxt(name) ==
    Len(name) >= Len(TxtExt) /\ SubSeq(name, Len(name) - Len(TxtExt) + 1, Len(name)) = TxtExt

\* The annotation files of a folder: its non-directory entries ending in ".txt".
TxtFiles(d) == {j \in DOMAIN d.files : ~d.files[j].isDir /\ EndsWithTxt(d.files[j].name)}

\* The file name truncated at its first dot.
Stem(name) ==
    IF \A i \in DOMAIN name : name[i] # "." THEN name
    ELSE SubSeq(name, 1, (CHOOSE i \in DOMAIN name :
                             name[i] = "." /\ \A j \in 1..(i - 1) : name[j] # ".") - 1)

\* The tokens of a text: its maximal runs of non-white-space characters.
RECURSIVE Fields(_)
Fields(s) ==
    IF s = <<>> THEN <<>>
    ELSE IF IsSpace(Head(s)) THEN Fields(Tail(s))
    ELSE LET n == CHOOSE m \in 1..Len(s) :
                     /\ \A j \in 1..m : ~IsSpace(s[j])
                     /\ m = Len(s) \/ IsSpace(s[m + 1])
         IN  <<SubSeq(s, 1, n)>> \o Fields(SubSeq(s, n + 1, Len(s)))

\* The floats of a text whose tokens are all valid.
FieldValues(s) == [t \in 1..Len(Fields(s)) |-> ParseFloat(Fields(s)[t])]

\* Every annotation file of the folder can be read and holds valid floats only.
AllValid(d) ==
    \A j \in TxtFiles(d) :
        /\ d.files[j].readable
        /\ \A t \in DOMAIN Fields(d.files[j].bytes) : ParseFloatOk(Fields(d.files[j].bytes)[t])

\* Some annotation file of the folder holds a token that is no float.
HasBadToken(d) ==
    \E j \in TxtFiles(d) :
        \E t \in DOMAIN Fields(d.files[j].bytes) : ~ParseFloatOk(Fields(d.files[j].bytes)[t])

\* Every separator of every annotation file contains a space or a newline.
SpaceSeparated(d) ==
    \A j \in TxtFiles(d) :
        LET b == d.files[j].bytes
        IN  \A i \in DOMAIN b :
               (b[i] \in {"\t", "\r"} /\ i > 1 /\ i < Len(b)) =>
                   \/ \E k \in 1..(i - 1) : b[k] \in {" ", "\n"} /\ \A m \in k..i : IsSpace(b[m])
                   \/ \E k \in (i + 1)..Len(b) : b[k] \in {" ", "\n"} /\ \A m \in i..k : IsSpace(b[m])
                   \/ \A m \in 1..i : IsSpace(b[m])
                   \/ \A m \in i..Len(b) : IsSpace(b[m])

\* parseFolder returns to its caller.
AtReturn == pc = "pf_returned"

\* parseFolder has returned to its caller.
ParseReturned == calls["parseFolder"] > 0 /\ pc \notin {"pf_ReadDir", "pf_loop"}

\* main has ended.
Done == pc = "done"

Keys == DOMAIN labeledData.targets

Lower == ToLower(modeStr)

\* C1: for a folder with at least one .txt file whose .txt files all hold valid
\* floats, parseFolder returns a map whose keys are exactly the stems of the
\* non-directory entries with extension ".txt".
C1_KeySetIsStems ==
    (/\ AtReturn
     /\ trainingFolder.readable
     /\ TxtFiles(trainingFolder) # {}
     /\ AllValid(trainingFolder))
    => /\ ~labeledData.nil
       /\ labeledData.err = "none"
       /\ Keys = {Stem(trainingFolder.files[j].name) : j \in TxtFiles(trainingFolder)}

\* C1 where every separator of the files holds a space or a newline: the key
\* set is the set of stems.
KeySetIsStemsWhenSpaceSeparated ==
    SpaceSeparated(trainingFolder) => C1_KeySetIsStems

\* C2: for a file of valid decimal tokens separated by runs of any white space,
\* the value stored under its stem is the sequence of those tokens parsed, in
\* file order.
C2_TokensSplitOnAnyWhitespace ==
    (/\ AtReturn
     /\ trainingFolder.readable
     /\ AllValid(trainingFolder))
    => \A j \in TxtFiles(trainingFolder) :
          LET f == trainingFolder.files[j]
          IN  (\A k \in TxtFiles(trainingFolder) :
                   k > j => Stem(trainingFolder.files[k].name) # Stem(f.name))
              => /\ ~labeledData.nil
                 /\ Stem(f.name) \in Keys
                 /\ labeledData.targets[Stem(f.name)] = FieldValues(f.bytes)

\* C2 where every separator of the files holds a space or a newline.
TokensSplitWhenSpaceSeparated ==
    SpaceSeparated(trainingFolder) => C2_TokensSplitOnAnyWhitespace

\* The trainer path has done nothing beyond parsing the annotations.
NoTraining ==
    \A c \in {"ActivateTrainingMode", "Concat", "Sum", "Grad", "Compile",
              "NewTapeMachine", "GetFloat32Image", "SetTarget", "Let", "RunAll", "Step"} :
        calls[c] = 0

\* C3: when a token of a .txt file of the folder is no valid float, parseFolder
\* returns an error and a nil map, whatever the other files hold, and the
\* trainer path then activates no training mode, evaluates no graph and makes
\* no optimizer step.
C3_MalformedFailsWhole ==
    (path = "training" /\ trainingFolder.readable /\ HasBadToken(trainingFolder))
    => /\ ParseReturned => (labeledData.nil /\ labeledData.err # "none"
                            /\ labeledData.targets = <<>>)
       /\ NoTraining
       /\ Done => (fatal = "parseFolder" /\ errMsgs = 1)

\* C3 witness: the run ended on the parse error although an earlier valid file
\* had already been stored in the map under construction.
C3_Witness ==
    /\ Done
    /\ path = "training"
    /\ HasBadToken(trainingFolder)
    /\ fatal = "parseFolder"
    /\ labeledData.err = "ParseFloat"
    /\ DOMAIN targets # {}

\* C4: with no read or float-parse failure, parseFolder returns an error and no
\* map exactly when the folder has no .txt file, a returned map is never empty,
\* and on that error the trainer path ends before any of its work.
C4_EmptyDatasetFailsFast ==
    /\ (ParseReturned /\ labeledData.err \notin {"ReadDir", "ReadFile", "ParseFloat"})
       => /\ (labeledData.err # "none") <=> (TxtFiles(trainingFolder) = {})
          /\ labeledData.nil <=> (labeledData.err # "none")
    /\ (ParseReturned /\ ~labeledData.nil) => Cardinality(Keys) >= 1
    /\ (path = "training" /\ trainingFolder.readable /\ TxtFiles(trainingFolder) = {})
       => /\ NoTraining
          /\ Done => (fatal = "parseFolder" /\ errMsgs = 1 /\ labeledData.err = "NoTxtFiles")

\* C4 witness: a folder with entries, none of them an annotation file, ended the
\* run on the parse error.
C4_Witness ==
    /\ Done
    /\ Len(trainingFolder.files) > 0
    /\ labeledData.err = "NoTxtFiles"
    /\ fatal = "parseFolder"
    /\ NoTraining

\* C5: the optimizer step of the iteration with index k uses rate 1e-5 for
\* k < 15, 1e-6 for 15 <= k < 150 and 1e-7 for k >= 150 (in units of 1e-7:
\* 100, 10, 1), whatever the size of the data set.
C5_LearningRateSchedule ==
    LET rateAt(k) == IF k < 15 THEN 100 ELSE IF k < 150 THEN 10 ELSE 1
    IN  /\ lastStep # <<>> => lastStep[2] = rateAt(lastStep[1])
        /\ pc = "t_Step" => solverRate = rateAt(iter)
        /\ pc = "t_Step" => iter = calls["Step"]
        /\ lastStep # <<>> => solverRate <= lastStep[2]
        /\ solverRate <= 100

\* C5 witness: the step after 150 completed iterations was made at rate 1e-7.
C5_Witness == lastStep = <<150, 1>> /\ calls["Step"] = 151

\* C6: a training run without a fatal failure makes exactly one optimizer step
\* per key of the annotation map, the iteration counter ends at the number of
\* keys, and a failed optimizer step never ends the run.
C6_OneStepPerKey ==
    /\ fatal # "Step"
    /\ (err = "Step" /\ pc = "t_Reset") => stepErrMsgs >= 1
    /\ (path = "training" /\ pc = "t_range")
       => /\ iter = calls["Step"]
          /\ iter = Cardinality(Keys) - Cardinality(remaining)
          /\ \A k \in Keys : stepsOf[k] = IF k \in remaining THEN 0 ELSE 1
    /\ (path = "training" /\ Done /\ fatal = "none")
       => /\ remaining = {}
          /\ \A k \in Keys : stepsOf[k] = 1
          /\ calls["Step"] = Cardinality(Keys)
          /\ iter = Cardinality(Keys)
          /\ errMsgs = 0
    /\ (path = "training" /\ Done /\ fatal = "none" /\ trainingFolder = SampleDir)
       => /\ Keys = {Sample1}
          /\ labeledData.targets[Sample1] = <<(<<1, 1>>), (<<2, 1>>), (<<3, 1>>), (<<4, 1>>)>>
          /\ calls["Step"] = 1

\* C6 witness: a run over several keys, one of whose optimizer steps failed,
\* reached its end.
C6_Witness ==
    /\ path = "training"
    /\ Done
    /\ fatal = "none"
    /\ stepErrMsgs >= 1
    /\ Cardinality(Keys) >= 2
    /\ calls["Step"] = Cardinality(Keys)

\* C7: after a failure of any call but the optimizer step, one error message
\* has been printed and the run has ended: nothing further is done and no
\* detections are printed.
C7_FatalFailuresEndRun ==
    /\ (err # "nil" /\ err # "Step")
       => (Done /\ fatal = err /\ errMsgs = 1)
    /\ fatal # "none"
       => /\ Done
          /\ errMsgs = 1
          /\ ~printed
          /\ "Printed" \notin stages
          /\ fatal \in {"Mode"} \cup (CallNames \ {"Step"})
    /\ path = "detector"
       => /\ fatal = "GetFloat32Image" => stages = {}
          /\ fatal \in {"Let", "RunAll"} => stages = {"ImageLoaded"}
          /\ fatal = "ProcessOutput" => stages = {"ImageLoaded", "GraphEvaluated"}
          /\ "Printed" \in stages
             => stages = {"ImageLoaded", "GraphEvaluated", "PostProcessed", "Printed"}
    /\ Done => ~ENABLED Next
    /\ fatal = "none" => errMsgs = 0

\* C7 witness: a set-target failure in a later iteration ended the run.
C7_Witness ==
    /\ Done
    /\ fatal = "SetTarget"
    /\ iter >= 1
    /\ calls["SetTarget"] = calls["Step"] + 1

\* C8 as claimed: every run whose mode string is neither "detector" nor
\* "training" reports the unrecognized mode.
C8_EveryUnknownModeReported ==
    (Done /\ Lower \notin {Detector, Training}) => fatal = "Mode"

\* C8 amended: the path entered is the one the lower-cased mode string names, at
\* most one is entered, and a run with any other mode string whose model was
\* constructed reports the mode and ends having entered neither path.
C8_ModeDispatch ==
    /\ path = "detector" => Lower = Detector
    /\ path = "training" => Lower = Training
    /\ calls["parseFolder"] > 0 => (path = "training" /\ stages = {} /\ calls["ProcessOutput"] = 0)
    /\ (stages # {} \/ calls["ProcessOutput"] > 0) => (path = "detector" /\ calls["parseFolder"] = 0)
    /\ (Done /\ fatal # "NewYoloV3" /\ Lower = Detector) => path = "detector"
    /\ (Done /\ fatal # "NewYoloV3" /\ Lower = Training) => path = "training"
    /\ Lower \notin {Detector, Training}
       => /\ path = "none"
          /\ calls["GetFloat32Image"] = 0
          /\ calls["parseFolder"] = 0
          /\ calls["RunAll"] = 0
          /\ (Done /\ fatal # "NewYoloV3") => (fatal = "Mode" /\ errMsgs = 1)

\* C8 witness: an unrecognized mode was reported.
C8_Witness ==
    /\ Done
    /\ fatal = "Mode"
    /\ Lower \notin {Detector, Training}
    /\ calls["NewYoloV3"] = 1

\* C9: in the detector path every exit taken after the tape machine was created
\* leaves it reset or released, and on the way to post-processing the reset
\* comes after the forward evaluation.
C9_DetectorReset ==
    path = "detector"
    => /\ (Done /\ tmState # "none") => tmClosed
       /\ (Done /\ tmState # "none") => (tmState = "clean" \/ tmClosed)
       /\ calls["Reset"] > 0 => (calls["RunAll"] = 1 /\ "GraphEvaluated" \in stages)
       /\ calls["ProcessOutput"] > 0 => (calls["Reset"] = 1 /\ tmState = "clean")
       /\ pc = "d_ProcessOutput" => calls["ProcessOutput"] = 0
       /\ (Done /\ fatal = "none") => calls["Reset"] = 1

\* C9 witness: the forward evaluation failed, the reset was not reached, and the
\* tape machine was released.
C9_Witness ==
    /\ path = "detector"
    /\ Done
    /\ fatal = "RunAll"
    /\ calls["Reset"] = 0
    /\ tmClosed

\* C10: in the trainer path no evaluation starts on a tape machine that was run
\* and not reset, and between two consecutive evaluations there is exactly one
\* reset, made after the optimizer step of the earlier iteration.
C10_ResetBetweenIterations ==
    path = "training"
    => /\ pc = "t_RunAll" => (tmState = "clean" /\ calls["Reset"] = calls["RunAll"])
       /\ calls["Reset"] \in {calls["RunAll"] - 1, calls["RunAll"]}
       /\ calls["Reset"] <= calls["Step"]
       /\ pc = "t_Reset" => (calls["Step"] = calls["RunAll"] /\ calls["Reset"] = calls["RunAll"] - 1)
       /\ pc = "t_Step" => calls["Reset"] = calls["RunAll"] - 1

\* C10 witness: a second evaluation is about to start after an iteration whose
\* optimizer step failed.
C10_Witness ==
    /\ path = "training"
    /\ pc = "t_RunAll"
    /\ calls["RunAll"] = 1
    /\ calls["Reset"] = 1
    /\ stepErrMsgs = 1
    /\ tmState = "clean"

\* The folders of the runs list their entries in the order of their names.
FoldersSorted ==
    \A i \in 1..(Len(trainingFolder.files) - 1) :
        NameLess(trainingFolder.files[i].name, trainingFolder.files[i + 1].name)
====
